---- MODULE Spec2Model ----
(***************************************************************************)
(* The feature selection engine of the custom build page                   *)
(* (src/web/static/js/add_build.js): the Features module, the dependency   *)
(* confirmation modal and the catalog load of onBoardChange.               *)
(*                                                                         *)
(* Every handler runs to completion (single-threaded JavaScript), so each  *)
(* handler is one action; its effect is computed by operators that thread  *)
(* a record `s` of the mutable state through the calls the code makes, in  *)
(* the order the code makes them.                                          *)
(***************************************************************************)
EXTENDS Integers, Sequences, FiniteSets, TLC

(***************************************************************************)
(* Bounds of the model.                                                    *)
(***************************************************************************)
\* features per catalog, and the range of the ids a dependency may name
MaxFeatures == 3
\* dependency edges per catalog
MaxEdges == 3
\* categories the features are dealt to
NumCategories == 2
\* the same for the catalogs a board change may load (page specification)
PageMaxFeatures == 2
PageMaxEdges == 1
\* features requests that may be awaiting their response at once
MaxInFlight == 2
\* builds whose log may be viewed (builds page)
MaxBuilds == 2
\* log requests that may be awaiting their response at once, and retry
\* timers that may be armed at once
MaxOutstanding == 2
\* options of each of the vehicle, version and board selects (legacy page)
MaxChoices == 2
\* vehicles/versions/boards requests that may be unsettled at once
MaxUpdateRequests == 2
\* defaults requests that may be unsettled at once
MaxDefaultsInFlight == 2

VARIABLES
    features,           \* Features.features: the catalog array
    features_by_id,     \* Features.features_by_id
    categories_grouped, \* Features.categories_grouped, in insertion order
    requiredFor,        \* feature.requiredFor of the feature objects
    selected_options,   \* Features.selected_options
    checkbox,           \* element.checked of every feature checkbox in the DOM
    category_checkbox,  \* checked/indeterminate of every category checkbox
    global_checkbox,    \* checked/indeterminate of #check-uncheck-all
    modal,              \* #dependencyCheckModal and its button handlers
    committed,          \* history: handleOptionStateChange ran since reset()
    hydrated,           \* history: applyRebuildFeatures ran since reset()
    rebuildConfig,      \* rebuildConfig (isRebuildMode, selectedFeatures)
    in_flight,          \* the features requests of onBoardChange not yet
                        \* answered, each as the catalog its board has
    stopFetch,          \* LogFetch.stopFetch
    build_id,           \* LogFetch.build_id (0 is null)
    scheduled_fetches,  \* LogFetch.scheduled_fetches
    xhr_sent,           \* the log requests sent and not yet settled, each
                        \* as the build id of its URL, in order of sending
    timeouts,           \* armed setTimeout(fetchLogFile, 3000) timers
    logTextArea,        \* textContent of #logTextArea
    logModal,           \* the build whose log #logModal is shown for (0 is
                        \* hidden)
    finished_builds,    \* server: builds whose log holds BUILD_FINISHED
    pending_update_calls, \* legacy page: pending_update_calls
    vehicle,            \* value of #vehicle (0: no such element)
    version,            \* value of #version (0: no such element)
    board,              \* value of #board (0: no such element)
    elements_blocked,   \* the selects and buttons of elements_to_block are
                        \* disabled
    reset_def,          \* #reset_def: "ready", or "fetching" (disabled,
                        \* with the spinner)
    update_requests,    \* the vehicles, versions and boards requests not
                        \* yet settled, in order of sending
    defaults_requested, \* vehicle, version and board of the last
                        \* /get_defaults request sent
    defaults_in_flight  \* /get_defaults requests not yet settled

\* the build page (add_build.js)
pageVars == <<features, features_by_id, categories_grouped, requiredFor,
              selected_options, checkbox, category_checkbox,
              global_checkbox, modal, committed, hydrated, rebuildConfig,
              in_flight>>

\* the builds list page (LogFetch and the log modal) and the server's logs
logVars == <<stopFetch, build_id, scheduled_fetches, xhr_sent, timeouts,
             logTextArea, logModal, finished_builds>>

\* the legacy build page (pending_update_calls flow)
legacyVars == <<pending_update_calls, vehicle, version, board,
                elements_blocked, reset_def, update_requests,
                defaults_requested, defaults_in_flight>>

vars == <<pageVars, logVars, legacyVars>>

(***************************************************************************)
(* Helpers.                                                                *)
(***************************************************************************)
Range(seq) == {seq[i] : i \in DOMAIN seq}

Min(S) == CHOOSE x \in S : \A y \in S : x <= y

RECURSIVE SetToSeq(_)
\* the ids of S in ascending order
SetToSeq(S) == IF S = {} THEN <<>> ELSE <<Min(S)>> \o SetToSeq(S \ {Min(S)})

\* the state the handlers work on, as one record; `flipped` and `recomputed`
\* observe the handler that runs on it: the ids whose checkbox changed state,
\* in order, and the number of times the aggregate indicators were
\* recomputed.  They start empty with every handler and are not page state.
State ==
    [features |-> features, features_by_id |-> features_by_id,
     categories_grouped |-> categories_grouped, requiredFor |-> requiredFor,
     selected_options |-> selected_options, checkbox |-> checkbox,
     category_checkbox |-> category_checkbox,
     global_checkbox |-> global_checkbox, modal |-> modal,
     committed |-> committed, hydrated |-> hydrated,
     flipped |-> <<>>, recomputed |-> 0]

\* the next state is the record a handler returns
Commit(s) ==
    /\ features' = s.features
    /\ features_by_id' = s.features_by_id
    /\ categories_grouped' = s.categories_grouped
    /\ requiredFor' = s.requiredFor
    /\ selected_options' = s.selected_options
    /\ checkbox' = s.checkbox
    /\ category_checkbox' = s.category_checkbox
    /\ global_checkbox' = s.global_checkbox
    /\ modal' = s.modal
    /\ committed' = s.committed
    /\ hydrated' = s.hydrated
    /\ UNCHANGED <<logVars, legacyVars>>

\* a checkbox as the page's markup creates it
Unchecked == [checked |-> FALSE, indeterminate |-> FALSE]

\* the modal before any confirmation was asked for: hidden, no text, no handler
NoModal == [shown |-> FALSE, feature_id |-> 0, body |-> <<>>]

(***************************************************************************)
(* Features.reset and the dictionaries.                                    *)
(***************************************************************************)
RECURSIVE groupByCategory(_, _, _)
\* the forEach of resetDictionaries, categories_grouped part: feature i on
groupByCategory(fs, i, grouped) ==
    IF i > Len(fs) THEN grouped
    ELSE LET cat_name == fs[i].category
             known == \E k \in DOMAIN grouped : grouped[k].name = cat_name
             g1 == IF known THEN grouped
                   ELSE Append(grouped, [name |-> cat_name, features |-> <<>>])
             g2 == [k \in DOMAIN g1 |->
                       IF g1[k].name = cat_name
                       THEN [g1[k] EXCEPT !.features = Append(@, fs[i].id)]
                       ELSE g1[k]]
         IN groupByCategory(fs, i + 1, g2)

resetDictionaries(s) ==
    LET fs == s.features
        ids == {fs[i].id : i \in DOMAIN fs}
        \* features_by_id[feature.id] = feature: the last one of an id stays
        last(id) == CHOOSE i \in DOMAIN fs :
                        /\ fs[i].id = id
                        /\ \A j \in DOMAIN fs : fs[j].id = id => j <= i
    IN [s EXCEPT !.features_by_id = [id \in ids |-> fs[last(id)]],
                 !.categories_grouped = groupByCategory(fs, 1, <<>>)]

getOptionByIdDefined(s, id) == id \in DOMAIN s.features_by_id

RECURSIVE updateRequiredForLoop(_, _, _, _)
\* the two nested forEach of updateRequiredFor: feature i, dependency j on
updateRequiredForLoop(s, i, j, rf) ==
    IF i > Len(s.features) THEN rf
    ELSE LET feature == s.features[i]
             deps == feature.dependencies
         IN IF j > Len(deps) THEN updateRequiredForLoop(s, i + 1, 1, rf)
            ELSE LET dependency_id == deps[j]
                     rf1 == IF ~getOptionByIdDefined(s, dependency_id) THEN rf
                            ELSE IF dependency_id \in DOMAIN rf
                                 THEN [rf EXCEPT ![dependency_id] =
                                                     Append(@, feature.id)]
                                 ELSE (dependency_id :> <<feature.id>>) @@ rf
                 IN updateRequiredForLoop(s, i, j + 1, rf1)

\* updateRequiredFor without the test of `dep`: a requiredFor list for every
\* id that is named as a dependency, a feature of the catalog or not
updateRequiredForOfEveryId(s) ==
    LET fs == s.features
        named == UNION {Range(fs[i].dependencies) : i \in DOMAIN fs}
    IN [s EXCEPT !.requiredFor =
           [d \in named |->
               SetToSeq({fs[i].id : i \in {j \in DOMAIN fs :
                                              d \in Range(fs[j].dependencies)}})]]

\* updateRequiredFor pushing onto the lists of the catalog loaded before
updateRequiredForOntoPrevious(s) ==
    [s EXCEPT !.requiredFor = updateRequiredForLoop(s, 1, 1, s.requiredFor)]

\* the feature objects of a response are new: none has a requiredFor yet
updateRequiredFor(s) ==
    [s EXCEPT !.requiredFor = updateRequiredForLoop(s, 1, 1, <<>>)]

reset(s, new_features) ==
    updateRequiredFor(resetDictionaries(
        [s EXCEPT !.features = new_features, !.selected_options = 0,
                  !.committed = FALSE, !.hydrated = FALSE]))

\* fillBuildOptions: build_options is rewritten with one unchecked checkbox
\* per feature and one per category of the response
fillBuildOptions(s, fs) ==
    [s EXCEPT !.checkbox = [id \in {fs[i].id : i \in DOMAIN fs} |-> FALSE],
              !.category_checkbox =
                  [c \in {fs[i].category : i \in DOMAIN fs} |-> Unchecked]]

(***************************************************************************)
(* The selection engine.                                                   *)
(***************************************************************************)
\* document.getElementById(id) of a feature checkbox finds an element
elementExists(s, id) == id \in DOMAIN s.checkbox

featureIsDisabledByDefault(s, feature_id) ==
    /\ getOptionByIdDefined(s, feature_id)
    /\ ~s.features_by_id[feature_id].default

featureisEnabledByDefault(s, feature_id) ==
    ~featureIsDisabledByDefault(s, feature_id)

\* the checked features of a category, counted over its feature list
checkedOptionsCount(s, category) ==
    Cardinality({k \in DOMAIN category.features :
                    /\ elementExists(s, category.features[k])
                    /\ s.checkbox[category.features[k]]})

\* updateCategoryCheckboxState with the count compared to the size of the
\* whole catalog, not to the size of the category
updateCategoryCheckboxStateOverCatalog(s, category_name) ==
    IF ~\E k \in DOMAIN s.categories_grouped :
            s.categories_grouped[k].name = category_name
    THEN s
    ELSE LET category == s.categories_grouped[
                 CHOOSE k \in DOMAIN s.categories_grouped :
                     s.categories_grouped[k].name = category_name]
             checked_options_count == checkedOptionsCount(s, category)
         IN IF category_name \notin DOMAIN s.category_checkbox THEN s
            ELSE [s EXCEPT !.category_checkbox[category_name] =
                     IF checked_options_count = 0
                     THEN [checked |-> FALSE, indeterminate |-> FALSE]
                     ELSE IF checked_options_count = Len(s.features)
                     THEN [checked |-> TRUE, indeterminate |-> FALSE]
                     ELSE [checked |-> @.checked, indeterminate |-> TRUE]]

updateCategoryCheckboxState(s, category_name) ==
    IF ~\E k \in DOMAIN s.categories_grouped :
            s.categories_grouped[k].name = category_name
    THEN s
    ELSE LET category == s.categories_grouped[
                 CHOOSE k \in DOMAIN s.categories_grouped :
                     s.categories_grouped[k].name = category_name]
             checked_options_count == checkedOptionsCount(s, category)
         IN IF category_name \notin DOMAIN s.category_checkbox THEN s
            ELSE [s EXCEPT !.category_checkbox[category_name] =
                     IF checked_options_count = 0
                     THEN [checked |-> FALSE, indeterminate |-> FALSE]
                     ELSE IF checked_options_count = Len(category.features)
                     THEN [checked |-> TRUE, indeterminate |-> FALSE]
                     ELSE [checked |-> @.checked, indeterminate |-> TRUE]]

\* updateGlobalCheckboxState without the two assignments that clear
\* indeterminate
updateGlobalCheckboxStateKeepsIndeterminate(s) ==
    LET total_options == Cardinality(DOMAIN s.features_by_id)
    IN [s EXCEPT !.global_checkbox =
           IF s.selected_options = 0
           THEN [checked |-> FALSE, indeterminate |-> @.indeterminate]
           ELSE IF s.selected_options = total_options
           THEN [checked |-> TRUE, indeterminate |-> @.indeterminate]
           ELSE [checked |-> @.checked, indeterminate |-> TRUE]]

updateGlobalCheckboxState(s) ==
    LET total_options == Cardinality(DOMAIN s.features_by_id)
    IN [s EXCEPT !.global_checkbox =
           IF s.selected_options = 0
           THEN [checked |-> FALSE, indeterminate |-> FALSE]
           ELSE IF s.selected_options = total_options
           THEN [checked |-> TRUE, indeterminate |-> FALSE]
           ELSE [checked |-> @.checked, indeterminate |-> TRUE]]

\* visited and dependent_features of the helper always hold the same ids;
\* acc is the dependent_features array, visited its set of elements
RECURSIVE getEnabledDependentFeaturesHelper(_, _, _)
RECURSIVE getEnabledDependentFeaturesLoop(_, _, _, _)
getEnabledDependentFeaturesHelper(s, feature_id, acc) ==
    IF feature_id \in Range(acc) THEN acc
    ELSE IF ~getOptionByIdDefined(s, feature_id) THEN acc
    ELSE IF ~elementExists(s, feature_id) \/ ~s.checkbox[feature_id] THEN acc
    ELSE LET acc1 == Append(acc, feature_id)
         IN IF feature_id \notin DOMAIN s.requiredFor THEN acc1
            ELSE getEnabledDependentFeaturesLoop(
                     s, s.requiredFor[feature_id], 1, acc1)

\* requiredFor.forEach of the helper and of getEnabledDependentFeaturesFor
getEnabledDependentFeaturesLoop(s, dependents, i, acc) ==
    IF i > Len(dependents) THEN acc
    ELSE getEnabledDependentFeaturesLoop(s, dependents, i + 1,
             getEnabledDependentFeaturesHelper(s, dependents[i], acc))

\* getEnabledDependentFeaturesFor without the descent of the helper into
\* requiredFor: the enabled direct dependents only
getEnabledDirectDependentFeaturesFor(s, feature_id) ==
    IF getOptionByIdDefined(s, feature_id) /\ feature_id \in DOMAIN s.requiredFor
    THEN SelectSeq(s.requiredFor[feature_id],
                   LAMBDA d : /\ getOptionByIdDefined(s, d)
                              /\ elementExists(s, d)
                              /\ s.checkbox[d])
    ELSE <<>>

getEnabledDependentFeaturesFor(s, feature_id) ==
    IF getOptionByIdDefined(s, feature_id) /\ feature_id \in DOMAIN s.requiredFor
    THEN getEnabledDependentFeaturesLoop(s, s.requiredFor[feature_id], 1, <<>>)
    ELSE <<>>

\* the modal is shown with the names of the dependents; Disable and Cancel
\* are bound to feature_id
askToDisableDependentsForFeature(s, feature_id) ==
    LET enabled_dependent_features == getEnabledDependentFeaturesFor(s, feature_id)
    IN IF Len(enabled_dependent_features) <= 0 THEN s
       ELSE [s EXCEPT !.modal = [shown |-> TRUE, feature_id |-> feature_id,
                                 body |-> enabled_dependent_features]]

RECURSIVE checkUncheckOptionById(_, _, _, _)
RECURSIVE handleOptionStateChange(_, _, _, _)
RECURSIVE enableDependenciesForFeature(_, _)
RECURSIVE enableDependenciesLoop(_, _, _)
RECURSIVE disabledDependentsForFeature(_, _)
RECURSIVE disabledDependentsLoop(_, _, _)

\* feature.dependencies.forEach of enableDependenciesForFeature
enableDependenciesLoop(s, dependencies, i) ==
    IF i > Len(dependencies) THEN s
    ELSE enableDependenciesLoop(
             checkUncheckOptionById(s, dependencies[i], TRUE, TRUE),
             dependencies, i + 1)

\* enableDependenciesForFeature with the forEach cut after the first
\* dependency
enableFirstDependencyForFeature(s, feature_id) ==
    IF \/ ~getOptionByIdDefined(s, feature_id)
       \/ Len(s.features_by_id[feature_id].dependencies) = 0
    THEN s
    ELSE checkUncheckOptionById(
             s, s.features_by_id[feature_id].dependencies[1], TRUE, TRUE)

enableDependenciesForFeature(s, feature_id) ==
    IF \/ ~getOptionByIdDefined(s, feature_id)
       \/ Len(s.features_by_id[feature_id].dependencies) = 0
    THEN s
    ELSE enableDependenciesLoop(s, s.features_by_id[feature_id].dependencies, 1)

\* dependents.forEach of disabledDependentsForFeature
disabledDependentsLoop(s, dependents, i) ==
    IF i > Len(dependents) THEN s
    ELSE disabledDependentsLoop(
             checkUncheckOptionById(s, dependents[i], FALSE, TRUE),
             dependents, i + 1)

\* disabledDependentsForFeature with the forEach cut after the first
\* dependent
disabledFirstDependentForFeature(s, feature_id) ==
    IF \/ ~getOptionByIdDefined(s, feature_id)
       \/ feature_id \notin DOMAIN s.requiredFor
    THEN s
    ELSE checkUncheckOptionById(s, s.requiredFor[feature_id][1], FALSE, TRUE)

disabledDependentsForFeature(s, feature_id) ==
    IF \/ ~getOptionByIdDefined(s, feature_id)
       \/ feature_id \notin DOMAIN s.requiredFor
    THEN s
    ELSE disabledDependentsLoop(s, s.requiredFor[feature_id], 1)

\* called with the checkbox already in its new state
handleOptionStateChange(s, feature_id, triggered_by_ui, updateDependencies) ==
    IF ~elementExists(s, feature_id) THEN s
    ELSE IF ~getOptionByIdDefined(s, feature_id) THEN s
    ELSE LET feature == s.features_by_id[feature_id]
             s0 == [s EXCEPT !.committed = TRUE,
                             !.flipped = Append(@, feature_id)]
             s1 == IF s0.checkbox[feature_id]
                   THEN LET a == [s0 EXCEPT !.selected_options = @ + 1]
                        IN IF updateDependencies
                           THEN enableDependenciesForFeature(a, feature.id)
                           ELSE a
                   ELSE LET a == [s0 EXCEPT !.selected_options = @ - 1]
                        IN IF ~updateDependencies THEN a
                           ELSE IF triggered_by_ui
                           THEN askToDisableDependentsForFeature(a, feature.id)
                           ELSE disabledDependentsForFeature(a, feature.id)
         IN [updateGlobalCheckboxState(
                 updateCategoryCheckboxState(s1, feature.category))
                EXCEPT !.recomputed = @ + 1]

\* checkUncheckOptionById passing triggered_by_ui = true
checkUncheckOptionByIdAsUi(s, id, check, updateDependencies) ==
    IF ~getOptionByIdDefined(s, id) THEN s
    ELSE IF ~elementExists(s, id) \/ s.checkbox[id] = check THEN s
    ELSE handleOptionStateChange([s EXCEPT !.checkbox[id] = check],
                                 id, TRUE, updateDependencies)

\* checkUncheckOptionById whose early return on element.checked == check
\* comes after the change was counted
checkUncheckOptionByIdRecounting(s, id, check, updateDependencies) ==
    IF ~getOptionByIdDefined(s, id) THEN s
    ELSE IF ~elementExists(s, id) THEN s
    ELSE IF s.checkbox[id] = check
    THEN handleOptionStateChange(s, id, FALSE, FALSE)
    ELSE handleOptionStateChange([s EXCEPT !.checkbox[id] = check],
                                 id, FALSE, updateDependencies)

checkUncheckOptionById(s, id, check, updateDependencies) ==
    IF ~getOptionByIdDefined(s, id) THEN s
    ELSE IF ~elementExists(s, id) \/ s.checkbox[id] = check THEN s
    ELSE handleOptionStateChange([s EXCEPT !.checkbox[id] = check],
                                 id, FALSE, updateDependencies)

RECURSIVE applyDefaultsLoop(_, _)
\* features.forEach of applyDefaults: feature i on
applyDefaultsLoop(s, i) ==
    IF i > Len(s.features) THEN s
    ELSE applyDefaultsLoop(
             checkUncheckOptionById(s, s.features[i].id,
                 featureisEnabledByDefault(s, s.features[i].id), TRUE),
             i + 1)

applyDefaults(s) == applyDefaultsLoop(s, 1)

RECURSIVE checkUncheckCategoryLoop(_, _, _, _)
\* features.forEach of checkUncheckCategory
checkUncheckCategoryLoop(s, members, i, check) ==
    IF i > Len(members) THEN s
    ELSE checkUncheckCategoryLoop(
             checkUncheckOptionById(s, members[i], check, TRUE),
             members, i + 1, check)

\* checkUncheckCategory with the forEach cut after the first feature
checkUncheckFirstOfCategory(s, category_name, check) ==
    LET category == s.categories_grouped[
            CHOOSE k \in DOMAIN s.categories_grouped :
                s.categories_grouped[k].name = category_name]
    IN checkUncheckOptionById(s, category.features[1], check, TRUE)

\* called only with the name of a category of the catalog
checkUncheckCategory(s, category_name, check) ==
    LET category == s.categories_grouped[
            CHOOSE k \in DOMAIN s.categories_grouped :
                s.categories_grouped[k].name = category_name]
    IN checkUncheckCategoryLoop(s, category.features, 1, check)

RECURSIVE checkUncheckAllLoop(_, _, _)
\* getAllCategories().forEach of checkUncheckAll: category k on
checkUncheckAllLoop(s, k, check) ==
    IF k > Len(s.categories_grouped) THEN s
    ELSE checkUncheckAllLoop(
             checkUncheckCategory(s, s.categories_grouped[k].name, check),
             k + 1, check)

\* checkUncheckAll that first brings every feature to the opposite state
checkUncheckAllAfterOpposite(s, check) ==
    checkUncheckAllLoop(checkUncheckAllLoop(s, 1, ~check), 1, check)

checkUncheckAll(s, check) == checkUncheckAllLoop(s, 1, check)

RECURSIVE applyRebuildFeaturesLoop(_, _, _)
\* featuresList.forEach of applyRebuildFeatures
applyRebuildFeaturesLoop(s, featuresList, i) ==
    IF i > Len(featuresList) THEN s
    ELSE applyRebuildFeaturesLoop(
             checkUncheckOptionById(s, featuresList[i], TRUE, FALSE),
             featuresList, i + 1)

\* applyRebuildFeatures with the listed features checked as a toggle checks
\* them, updateDependencies left at its default of true
applyRebuildFeaturesUpdatingDependencies(s, featuresList) ==
    checkUncheckCategoryLoop(
        checkUncheckAll([s EXCEPT !.hydrated = TRUE], FALSE),
        featuresList, 1, TRUE)

applyRebuildFeatures(s, featuresList) ==
    applyRebuildFeaturesLoop(
        checkUncheckAll([s EXCEPT !.hydrated = TRUE], FALSE), featuresList, 1)

(***************************************************************************)
(* The page: catalog load, user events, exposed calls.                     *)
(***************************************************************************)
\* the page before the first features response: Features holds nothing, the
\* markup holds the unchecked global checkbox and the hidden modal
EmptyPage ==
    [features |-> <<>>, features_by_id |-> <<>>, categories_grouped |-> <<>>,
     requiredFor |-> <<>>, selected_options |-> 0, checkbox |-> <<>>,
     category_checkbox |-> <<>>, global_checkbox |-> Unchecked,
     modal |-> NoModal, committed |-> FALSE, hydrated |-> FALSE,
     flipped |-> <<>>, recomputed |-> 0]

\* rebuildConfig as declared, and as clearRebuildConfig leaves it
NoRebuild == [isRebuildMode |-> FALSE, selectedFeatures |-> <<>>]

\* clearRebuildConfig emptying the list and leaving isRebuildMode set
clearRebuildConfigKeepingMode ==
    [isRebuildMode |-> TRUE, selectedFeatures |-> <<>>]

clearRebuildConfig == NoRebuild

\* the .then callback of onBoardChange on a features response
onFeaturesResponse(s, features_response, rebuild) ==
    LET s1 == fillBuildOptions(reset(s, features_response), features_response)
    IN IF rebuild.isRebuildMode
       THEN applyRebuildFeatures(s1, rebuild.selectedFeatures)
       ELSE applyDefaults(s1)

\* the catalogs of n <= nmax features with ids 1..n and at most emax
\* dependency edges, each to an id of 1..nmax (an id above n names no feature
\* of the catalog); features are dealt to the categories in turn
EdgeSets(n, nmax, emax) ==
    {E \in SUBSET ((1..n) \X (1..nmax)) : Cardinality(E) <= emax}

MakeCatalog(n, nmax, E, D) ==
    [i \in 1..n |->
        [id |-> i, category |-> ((i - 1) % NumCategories) + 1,
         dependencies |-> SetToSeq({d \in 1..nmax : <<i, d>> \in E}),
         default |-> (i \in D)]]

Catalogs(nmax, emax) ==
    UNION {{MakeCatalog(n, nmax, E, D) :
                E \in EdgeSets(n, nmax, emax), D \in SUBSET (1..n)} :
           n \in 1..nmax}

\* the lists of feature ids a caller may pass
IdLists(nmax) == {SetToSeq(S) : S \in SUBSET (1..nmax)}

InitFrom(s) ==
    /\ features = s.features
    /\ features_by_id = s.features_by_id
    /\ categories_grouped = s.categories_grouped
    /\ requiredFor = s.requiredFor
    /\ selected_options = s.selected_options
    /\ checkbox = s.checkbox
    /\ category_checkbox = s.category_checkbox
    /\ global_checkbox = s.global_checkbox
    /\ modal = s.modal
    /\ committed = s.committed
    /\ hydrated = s.hydrated

\* a page that has loaded its first catalog and seeded it with the defaults
(***************************************************************************)
(* LogFetch (builds list page).                                            *)
(***************************************************************************)
\* build_id before the first startLogFetch: null
NoBuild == 0

\* #logTextArea as the markup has it
NoText == [build |-> NoBuild, text |-> "empty"]

\* LogFetch and the text area as one record
LogFetchState ==
    [stopFetch |-> stopFetch, build_id |-> build_id,
     scheduled_fetches |-> scheduled_fetches, xhr_sent |-> xhr_sent,
     timeouts |-> timeouts, logTextArea |-> logTextArea,
     logModal |-> logModal]

CommitLogFetch(l) ==
    /\ stopFetch' = l.stopFetch
    /\ build_id' = l.build_id
    /\ scheduled_fetches' = l.scheduled_fetches
    /\ xhr_sent' = l.xhr_sent
    /\ timeouts' = l.timeouts
    /\ logTextArea' = l.logTextArea
    /\ logModal' = l.logModal

\* the module as the script leaves it when loaded
LogFetchInit ==
    /\ stopFetch = TRUE
    /\ build_id = NoBuild
    /\ scheduled_fetches = 0
    /\ xhr_sent = <<>>
    /\ timeouts = 0
    /\ logTextArea = NoText
    /\ logModal = NoBuild
    /\ finished_builds = {}

\* fetchLogFile: gives the chain up, or sends the request for build_id
fetchLogFile(l) ==
    IF l.stopFetch \/ l.build_id = NoBuild
    THEN [l EXCEPT !.scheduled_fetches = @ - 1]
    ELSE [l EXCEPT !.xhr_sent = Append(@, l.build_id)]

\* startLogFetch calling fetchLogFile whatever scheduled_fetches is
startLogFetchUnconditionally(l, new_build_id) ==
    fetchLogFile([l EXCEPT !.build_id = new_build_id, !.stopFetch = FALSE,
                           !.scheduled_fetches = 1])

startLogFetch(l, new_build_id) ==
    LET l1 == [l EXCEPT !.build_id = new_build_id, !.stopFetch = FALSE]
    IN IF l1.scheduled_fetches <= 0
       THEN fetchLogFile([l1 EXCEPT !.scheduled_fetches = 1])
       ELSE l1

stopLogFetch(l) == [l EXCEPT !.stopFetch = TRUE]

\* xhr.onload of the k-th request sent: status is the HTTP status, finished
\* tells whether responseText includes BUILD_FINISHED
xhrOnload(l, k, status, finished) ==
    LET requested == l.xhr_sent[k]
        l1 == [l EXCEPT !.xhr_sent =
                  [j \in 1..(Len(l.xhr_sent) - 1) |->
                      IF j < k THEN l.xhr_sent[j] ELSE l.xhr_sent[j + 1]]]
        l2 == IF status = 200
              THEN [l1 EXCEPT
                       !.logTextArea =
                           [build |-> requested,
                            text |-> IF finished THEN "finished"
                                     ELSE "running"],
                       !.stopFetch = IF finished THEN TRUE ELSE @]
              ELSE l1
    IN IF ~l2.stopFetch
       THEN [l2 EXCEPT !.timeouts = @ + 1]
       ELSE [l2 EXCEPT !.scheduled_fetches = @ - 1]

\* launchLogModal: the placeholder text, startLogFetch, and the modal shown
launchLogModal(l, id) ==
    [startLogFetch([l EXCEPT !.logTextArea =
                                [build |-> id, text |-> "fetching"]], id)
        EXCEPT !.logModal = id]

(***************************************************************************)
(* The legacy build page: requests gated by pending_update_calls.          *)
(***************************************************************************)
\* document.getElementById finds no element of the id
NoElement == 0

\* no /get_defaults request was sent yet
NoDefaults == <<NoElement, NoElement, NoElement>>

\* the legacy page as one record
LegacyState ==
    [pending_update_calls |-> pending_update_calls, vehicle |-> vehicle,
     version |-> version, board |-> board,
     elements_blocked |-> elements_blocked, reset_def |-> reset_def,
     update_requests |-> update_requests,
     defaults_requested |-> defaults_requested,
     defaults_in_flight |-> defaults_in_flight]

CommitLegacy(g) ==
    /\ pending_update_calls' = g.pending_update_calls
    /\ vehicle' = g.vehicle
    /\ version' = g.version
    /\ board' = g.board
    /\ elements_blocked' = g.elements_blocked
    /\ reset_def' = g.reset_def
    /\ update_requests' = g.update_requests
    /\ defaults_requested' = g.defaults_requested
    /\ defaults_in_flight' = g.defaults_in_flight

\* the page when its script is loaded, before init(): the lists hold no
\* select yet
LegacyLoaded ==
    [pending_update_calls |-> 0, vehicle |-> NoElement,
     version |-> NoElement, board |-> NoElement,
     elements_blocked |-> FALSE, reset_def |-> "ready",
     update_requests |-> <<>>, defaults_requested |-> NoDefaults,
     defaults_in_flight |-> 0]

LegacyFrom(g) ==
    /\ pending_update_calls = g.pending_update_calls
    /\ vehicle = g.vehicle
    /\ version = g.version
    /\ board = g.board
    /\ elements_blocked = g.elements_blocked
    /\ reset_def = g.reset_def
    /\ update_requests = g.update_requests
    /\ defaults_requested = g.defaults_requested
    /\ defaults_in_flight = g.defaults_in_flight

\* fetchAndUpdateDefaults: .value of a select that is not in the page
\* throws a TypeError, after #reset_def was blocked and before the request
fetchAndUpdateDefaults(g) ==
    IF g.pending_update_calls > 0 THEN g
    ELSE IF NoElement \in {g.version, g.vehicle, g.board}
         THEN [g EXCEPT !.reset_def = "fetching"]
         ELSE [g EXCEPT !.reset_def = "fetching",
                        !.defaults_requested =
                            <<g.vehicle, g.version, g.board>>,
                        !.defaults_in_flight = @ + 1]

\* onBoardChange of the legacy page
onBoardChangeLegacy(g) == fetchAndUpdateDefaults(g)

\* fillBoards puts a new #board into board_list
updateBoards(g, new_board) ==
    LET old_board == g.board
        g1 == [g EXCEPT !.board = new_board]
    IN IF old_board # new_board THEN onBoardChangeLegacy(g1) ELSE g1

\* the spinner set into board_list replaces #board
onVersionChange(g, new_version) ==
    [g EXCEPT !.elements_blocked = TRUE,
              !.board = NoElement,
              !.pending_update_calls = @ + 1,
              !.update_requests =
                  Append(@, [kind |-> "boards", vehicle |-> g.vehicle,
                             version |-> new_version])]

updateVersions(g, new_version) ==
    LET old_version == g.version
        g1 == [g EXCEPT !.version = new_version]
    IN IF old_version # new_version THEN onVersionChange(g1, new_version)
       ELSE g1

\* the spinner set into version_list replaces #version
onVehicleChange(g, new_vehicle) ==
    [g EXCEPT !.elements_blocked = TRUE,
              !.version = NoElement,
              !.pending_update_calls = @ + 1,
              !.update_requests =
                  Append(@, [kind |-> "versions", vehicle |-> new_vehicle,
                             version |-> NoElement])]

updateVehicles(g, new_vehicle) ==
    LET old_vehicle == g.vehicle
        g1 == [g EXCEPT !.vehicle = new_vehicle]
    IN IF old_vehicle # new_vehicle THEN onVehicleChange(g1, new_vehicle)
       ELSE g1

\* the spinner set into vehicle_list replaces #vehicle
fetchVehicles(g) ==
    [g EXCEPT !.elements_blocked = TRUE,
              !.vehicle = NoElement,
              !.pending_update_calls = @ + 1,
              !.update_requests =
                  Append(@, [kind |-> "vehicles", vehicle |-> NoElement,
                             version |-> NoElement])]

\* the .finally callback of a vehicles, versions or boards request
updateFinally(g) ==
    fetchAndUpdateDefaults(
        [g EXCEPT !.elements_blocked = FALSE,
                  !.pending_update_calls = @ - 1])

\* update_requests without its k-th request
settled(g, k) ==
    [g EXCEPT !.update_requests =
        [j \in 1..(Len(g.update_requests) - 1) |->
            IF j < k THEN g.update_requests[j] ELSE g.update_requests[j + 1]]]

\* the k-th request resolves: its .then callback selects `selection` (the
\* vehicle, version or default board the response leads to), then .finally
updateResolved(g, k, selection) ==
    LET kind == g.update_requests[k].kind
        g1 == settled(g, k)
    IN updateFinally(
           IF kind = "vehicles" THEN updateVehicles(g1, selection)
           ELSE IF kind = "versions" THEN updateVersions(g1, selection)
           ELSE updateBoards(g1, selection))

\* the k-th request is rejected (a response with a status other than 200):
\* .catch logs, then .finally
updateRejected(g, k) == updateFinally(settled(g, k))

Init ==
    /\ LogFetchInit
    /\ LegacyFrom(LegacyLoaded)
    /\ rebuildConfig = NoRebuild
    /\ in_flight = <<>>
    /\ \E c \in Catalogs(MaxFeatures, MaxEdges) :
           InitFrom(onFeaturesResponse(EmptyPage, c, NoRebuild))

\* a click on a feature checkbox: the browser flips it, then its onclick
\* runs Features.handleOptionStateChange(this.id, true)
onclickFeature(s, id) ==
    handleOptionStateChange([s EXCEPT !.checkbox[id] = ~@], id, TRUE, TRUE)

\* a click on a category checkbox: the browser flips it and clears
\* indeterminate, then checkUncheckCategory(name, this.checked)
onclickCategory(s, category_name) ==
    LET check == ~s.category_checkbox[category_name].checked
    IN checkUncheckCategory(
           [s EXCEPT !.category_checkbox[category_name] =
                         [checked |-> check, indeterminate |-> FALSE]],
           category_name, check)

\* a click on #check-uncheck-all: Features.checkUncheckAll(this.checked)
onclickGlobal(s) ==
    LET check == ~s.global_checkbox.checked
    IN checkUncheckAll(
           [s EXCEPT !.global_checkbox =
                         [checked |-> check, indeterminate |-> FALSE]],
           check)

\* a Disable that only dismisses the modal and leaves the dependents checked
onclickModalDisableDismissOnly(s) ==
    [s EXCEPT !.modal.shown = FALSE]

\* #modalDisableButton: the onclick set by askToDisableDependentsForFeature,
\* then data-bs-dismiss hides the modal (text and handlers stay)
onclickModalDisable(s) ==
    [disabledDependentsForFeature(s, s.modal.feature_id)
        EXCEPT !.modal.shown = FALSE]

\* a Cancel that only dismisses the modal and leaves the feature unchecked
onclickModalCancelDismissOnly(s) ==
    [s EXCEPT !.modal.shown = FALSE]

\* #modalCancelButton and #modalCloseButton share one onclick; `feature` was
\* found when the handler was set
onclickModalCancel(s) ==
    [checkUncheckOptionById(s, s.modal.feature_id, TRUE, TRUE)
        EXCEPT !.modal.shown = FALSE]

\* The modal has a static backdrop: while it is shown the page under it
\* takes no click.
ClickFeature(id) ==
    /\ ~modal.shown
    /\ id \in DOMAIN checkbox
    /\ Commit(onclickFeature(State, id))
    /\ UNCHANGED <<rebuildConfig, in_flight>>

ClickCategory(category_name) ==
    /\ ~modal.shown
    /\ category_name \in DOMAIN category_checkbox
    /\ Commit(onclickCategory(State, category_name))
    /\ UNCHANGED <<rebuildConfig, in_flight>>

ClickGlobal ==
    /\ ~modal.shown
    /\ Commit(onclickGlobal(State))
    /\ UNCHANGED <<rebuildConfig, in_flight>>

\* the user clicks #reset_def: Features.applyDefaults()
ClickResetDefaults ==
    /\ ~modal.shown
    /\ Commit(applyDefaults(State))
    /\ UNCHANGED <<rebuildConfig, in_flight>>

ModalDisable ==
    /\ modal.shown
    /\ Commit(onclickModalDisable(State))
    /\ UNCHANGED <<rebuildConfig, in_flight>>

ModalCancel ==
    /\ modal.shown
    /\ Commit(onclickModalCancel(State))
    /\ UNCHANGED <<rebuildConfig, in_flight>>

\* a caller of the exposed Features.checkUncheckOptionById(id, check)
Toggle(id, check) ==
    /\ ~modal.shown
    /\ Commit(checkUncheckOptionById(State, id, check, TRUE))
    /\ UNCHANGED <<rebuildConfig, in_flight>>

\* a caller of applyRebuildFeatures(featuresList)
Hydrate(featuresList) ==
    /\ ~modal.shown
    /\ Commit(applyRebuildFeatures(State, featuresList))
    /\ UNCHANGED <<rebuildConfig, in_flight>>

\* onBoardChange up to the request: build_options is emptied (no feature
\* or category checkbox is left in the page) and the features of the board
\* are requested.  It is called by updateBoards from the callback of the
\* boards request, which a vehicle or version change started: it may run
\* while a confirmation is shown.
onBoardChange(new_board_catalog) ==
    /\ Len(in_flight) < MaxInFlight
    /\ Commit([State EXCEPT !.checkbox = <<>>, !.category_checkbox = <<>>])
    /\ in_flight' = Append(in_flight, new_board_catalog)
    /\ UNCHANGED rebuildConfig

\* a features request is answered with status 200: the .then callback
FeaturesResponse(k) ==
    /\ k \in DOMAIN in_flight
    /\ Commit(onFeaturesResponse(State, in_flight[k], rebuildConfig))
    /\ rebuildConfig' = IF rebuildConfig.isRebuildMode
                        THEN clearRebuildConfig ELSE rebuildConfig
    /\ in_flight' = [j \in 1..(Len(in_flight) - 1) |->
                        IF j < k THEN in_flight[j] ELSE in_flight[j + 1]]

\* a features request is rejected: the .catch callback only logs
FeaturesRequestFails(k) ==
    /\ k \in DOMAIN in_flight
    /\ in_flight' = [j \in 1..(Len(in_flight) - 1) |->
                        IF j < k THEN in_flight[j] ELSE in_flight[j + 1]]
    /\ UNCHANGED <<features, features_by_id, categories_grouped, requiredFor,
                   selected_options, checkbox, category_checkbox,
                   global_checkbox, modal, committed, hydrated,
                   rebuildConfig>>
    /\ UNCHANGED <<logVars, legacyVars>>

Next ==
    \/ \E id \in 1..MaxFeatures : ClickFeature(id)
    \/ \E c \in 1..NumCategories : ClickCategory(c)
    \/ ClickGlobal
    \/ ClickResetDefaults
    \/ ModalDisable
    \/ ModalCancel
    \/ \E id \in 1..MaxFeatures, check \in BOOLEAN : Toggle(id, check)
    \/ \E featuresList \in IdLists(MaxFeatures) : Hydrate(featuresList)

\* the engine on any catalog, with every exposed call
Spec == Init /\ [][Next]_vars

\* the page as init() leaves it, in rebuild mode or not
InitPage ==
    /\ LogFetchInit
    /\ LegacyFrom(LegacyLoaded)
    /\ InitFrom(EmptyPage)
    /\ in_flight = <<>>
    /\ \/ rebuildConfig = NoRebuild
       \/ \E featuresList \in IdLists(PageMaxFeatures) :
              rebuildConfig = [isRebuildMode |-> TRUE,
                               selectedFeatures |-> featuresList]

NextPage ==
    \/ \E id \in 1..PageMaxFeatures : ClickFeature(id)
    \/ \E c \in 1..NumCategories : ClickCategory(c)
    \/ ClickGlobal
    \/ ClickResetDefaults
    \/ ModalDisable
    \/ ModalCancel
    \/ \E c \in Catalogs(PageMaxFeatures, PageMaxEdges) : onBoardChange(c)
    \/ \E k \in 1..MaxInFlight : FeaturesResponse(k)
    \/ \E k \in 1..MaxInFlight : FeaturesRequestFails(k)

\* the page across board changes
SpecPage == InitPage /\ [][NextPage]_vars

\* a click on a "View log" button: onclick is launchLogModal(build_id)
LaunchLogModal(id) ==
    /\ Len(xhr_sent) < MaxOutstanding
    /\ CommitLogFetch(launchLogModal(LogFetchState, id))
    /\ UNCHANGED <<finished_builds, pageVars, legacyVars>>

\* the log modal is hidden: every hide.bs.modal listener calls stopLogFetch
HideLogModal ==
    /\ CommitLogFetch(stopLogFetch(
           [LogFetchState EXCEPT !.logModal = NoBuild]))
    /\ UNCHANGED <<finished_builds, pageVars, legacyVars>>

\* the response to the k-th request arrives with a status; its text is the
\* log the server has for the requested build
XhrLoad(k, status) ==
    /\ k \in DOMAIN xhr_sent
    /\ timeouts < MaxOutstanding
    /\ CommitLogFetch(xhrOnload(LogFetchState, k, status,
                                xhr_sent[k] \in finished_builds))
    /\ UNCHANGED <<finished_builds, pageVars, legacyVars>>

\* the k-th request fails in the network: the xhr has no onerror handler
XhrError(k) ==
    /\ k \in DOMAIN xhr_sent
    /\ xhr_sent' = [j \in 1..(Len(xhr_sent) - 1) |->
                       IF j < k THEN xhr_sent[j] ELSE xhr_sent[j + 1]]
    /\ UNCHANGED <<stopFetch, build_id, scheduled_fetches, timeouts,
                   logTextArea, logModal, finished_builds, pageVars,
                   legacyVars>>

\* a timer set by xhr.onload fires: fetchLogFile runs
TimeoutFires ==
    /\ timeouts > 0
    /\ Len(xhr_sent) < MaxOutstanding
    /\ CommitLogFetch(fetchLogFile(
           [LogFetchState EXCEPT !.timeouts = @ - 1]))
    /\ UNCHANGED <<finished_builds, pageVars, legacyVars>>

\* the server writes BUILD_FINISHED to the log of a build
BuildFinishes(id) ==
    /\ id \notin finished_builds
    /\ finished_builds' = finished_builds \cup {id}
    /\ UNCHANGED <<stopFetch, build_id, scheduled_fetches, xhr_sent,
                   timeouts, logTextArea, logModal, pageVars, legacyVars>>

InitLog ==
    /\ LogFetchInit
    /\ LegacyFrom(LegacyLoaded)
    /\ InitFrom(EmptyPage)
    /\ rebuildConfig = NoRebuild
    /\ in_flight = <<>>

NextLog ==
    \/ \E id \in 1..MaxBuilds : LaunchLogModal(id)
    \/ HideLogModal
    \/ \E k \in 1..MaxOutstanding, status \in {200, 404} : XhrLoad(k, status)
    \/ \E k \in 1..MaxOutstanding : XhrError(k)
    \/ TimeoutFires
    \/ \E id \in 1..MaxBuilds : BuildFinishes(id)

\* the builds list page: log viewing
SpecLog == InitLog /\ [][NextLog]_vars

\* the same with a server that answers every log request with status 200
NextLogAnswered ==
    \/ \E id \in 1..MaxBuilds : LaunchLogModal(id)
    \/ HideLogModal
    \/ \E k \in 1..MaxOutstanding : XhrLoad(k, 200)
    \/ TimeoutFires
    \/ \E id \in 1..MaxBuilds : BuildFinishes(id)

\* every request sent is answered and every armed timer fires (the event
\* loop runs them); the user and the builds are under no obligation
SpecLogAnswered ==
    /\ InitLog
    /\ [][NextLogAnswered]_vars
    /\ WF_vars(\E k \in 1..MaxOutstanding : XhrLoad(k, 200))
    /\ WF_vars(TimeoutFires)

\* a vehicles, versions or boards request resolves
UpdateRequestResolves(k, selection) ==
    /\ k \in DOMAIN update_requests
    /\ defaults_in_flight < MaxDefaultsInFlight
    /\ CommitLegacy(updateResolved(LegacyState, k, selection))
    /\ UNCHANGED <<pageVars, logVars>>

\* a vehicles, versions or boards request is rejected
UpdateRequestRejected(k) ==
    /\ k \in DOMAIN update_requests
    /\ defaults_in_flight < MaxDefaultsInFlight
    /\ CommitLegacy(updateRejected(LegacyState, k))
    /\ UNCHANGED <<pageVars, logVars>>

\* the user picks another vehicle: onchange is onVehicleChange(this.value)
ChangeVehicle(new_vehicle) ==
    /\ vehicle \notin {NoElement, new_vehicle}
    /\ ~elements_blocked
    /\ Len(update_requests) < MaxUpdateRequests
    /\ CommitLegacy(onVehicleChange(
           [LegacyState EXCEPT !.vehicle = new_vehicle], new_vehicle))
    /\ UNCHANGED <<pageVars, logVars>>

\* the user picks another version: onchange is onVersionChange(this.value)
ChangeVersion(new_version) ==
    /\ version \notin {NoElement, new_version}
    /\ ~elements_blocked
    /\ Len(update_requests) < MaxUpdateRequests
    /\ CommitLegacy(onVersionChange(
           [LegacyState EXCEPT !.version = new_version], new_version))
    /\ UNCHANGED <<pageVars, logVars>>

\* the user picks another board: onchange is onBoardChange(this.value)
ChangeBoard(new_board) ==
    /\ board \notin {NoElement, new_board}
    /\ ~elements_blocked
    /\ defaults_in_flight < MaxDefaultsInFlight
    /\ CommitLegacy(onBoardChangeLegacy(
           [LegacyState EXCEPT !.board = new_board]))
    /\ UNCHANGED <<pageVars, logVars>>

\* a /get_defaults request settles: its .finally unblocks #reset_def
DefaultsRequestSettles ==
    /\ defaults_in_flight > 0
    /\ defaults_in_flight' = defaults_in_flight - 1
    /\ reset_def' = "ready"
    /\ UNCHANGED <<pending_update_calls, vehicle, version, board,
                   elements_blocked, update_requests, defaults_requested,
                   pageVars, logVars>>

\* the legacy page after init(): fetchVehicles() has sent its request
InitLegacy ==
    /\ LogFetchInit
    /\ InitFrom(EmptyPage)
    /\ rebuildConfig = NoRebuild
    /\ in_flight = <<>>
    /\ LegacyFrom(fetchVehicles(LegacyLoaded))

NextLegacy ==
    \/ \E k \in 1..MaxUpdateRequests, selection \in 1..MaxChoices :
           UpdateRequestResolves(k, selection)
    \/ \E k \in 1..MaxUpdateRequests : UpdateRequestRejected(k)
    \/ \E new_vehicle \in 1..MaxChoices : ChangeVehicle(new_vehicle)
    \/ \E new_version \in 1..MaxChoices : ChangeVersion(new_version)
    \/ \E new_board \in 1..MaxChoices : ChangeBoard(new_board)
    \/ DefaultsRequestSettles

\* the legacy build page
SpecLegacy == InitLegacy /\ [][NextLegacy]_vars

(***************************************************************************)
(* What the properties speak of, taken from the catalog and the page, not  *)
(* from the dictionaries the engine derives.                               *)
(***************************************************************************)
\* selectedIds(): the features whose checkbox is checked
SelectedOf(s) == {id \in DOMAIN s.checkbox : s.checkbox[id]}

Selected == SelectedOf(State)

\* the ids of the catalog array fs
CatalogIds(fs) == {fs[i].id : i \in DOMAIN fs}

\* F.dependencies as a set
DependenciesOf(fs, id) ==
    UNION {Range(fs[i].dependencies) : i \in {j \in DOMAIN fs : fs[j].id = id}}

\* the dependencies of id that are features of the catalog
KnownDependenciesOf(fs, id) == DependenciesOf(fs, id) \cap CatalogIds(fs)

\* the dependents of id: the features that list id as a dependency
DependentsOf(fs, id) == {f \in CatalogIds(fs) : id \in DependenciesOf(fs, f)}

RECURSIVE DependentsClosure(_, _, _, _)
\* the features of sel reachable from id along dependents edges through
\* features of sel, as a least fixpoint starting from R = {}
DependentsClosure(fs, id, sel, R) ==
    LET R1 == R \cup {g \in sel : \E h \in R \cup {id} : g \in DependentsOf(fs, h)}
    IN IF R1 = R THEN R ELSE DependentsClosure(fs, id, sel, R1)

RECURSIVE DependenciesClosure(_, _)
\* the least set of catalog features that holds S and every catalog-known
\* dependency of its members
DependenciesClosure(fs, S) ==
    LET S1 == S \cup UNION {KnownDependenciesOf(fs, f) : f \in S}
    IN IF S1 = S THEN S ELSE DependenciesClosure(fs, S1)

\* the selection is closed upward over the catalog-known dependencies
UpwardClosed(fs, sel) == \A f \in sel : KnownDependenciesOf(fs, f) \subseteq sel

\* what a tri-state checkbox shows
Indicator(cb) ==
    IF cb.indeterminate THEN "indeterminate"
    ELSE IF cb.checked THEN "fully selected" ELSE "unselected"

\* what it should show for `n` selected features out of the set `members`
TriState(n, members) ==
    IF n = 0 THEN "unselected"
    ELSE IF n = Cardinality(members) THEN "fully selected"
    ELSE "indeterminate"

\* the build options of the loaded catalog are in the page
CatalogShown ==
    /\ features # <<>>
    /\ DOMAIN checkbox = CatalogIds(features)

C2_CascadeCompleteness ==
    /\ ~modal.shown =>
         \A id \in Selected :
            LET closure == DependentsClosure(features, id, Selected, {})
                toggled == checkUncheckOptionById(State, id, FALSE, TRUE)
                clicked == onclickFeature(State, id)
            IN /\ SelectedOf(toggled) = Selected \ ({id} \cup closure)
               /\ ~toggled.modal.shown
               /\ SelectedOf(clicked) = Selected \ {id}
               /\ clicked.modal.shown = (closure \ {id} # {})
               /\ clicked.modal.shown =>
                      /\ clicked.modal.feature_id = id
                      /\ SelectedOf(onclickModalDisable(clicked)) =
                             Selected \ ({id} \cup closure)
    /\ modal.shown =>
         LET F == modal.feature_id
             before == Selected \cup {F}
         IN /\ F \notin Selected
            /\ SelectedOf(onclickModalDisable(State)) =
                   before \ ({F} \cup DependentsClosure(features, F, before, {}))

\* the confirmation asked for a feature with a chain of two dependents was
\* resolved and none of the three is selected
C2_Witness ==
    /\ ~modal.shown
    /\ Len(modal.body) = 2
    /\ modal.body[2] \in DependentsOf(features, modal.body[1])
    /\ modal.body[2] \notin DependentsOf(features, modal.feature_id)
    /\ Selected \cap ({modal.feature_id} \cup Range(modal.body)) = {}

(***************************************************************************)
(* C3. Cancel restores truth.                                              *)
(***************************************************************************)
\* C3: from a selection reached with no hydrate call, a user's uncheck of a
\* selected feature that raises the confirmation, followed by Cancel, leaves
\* the selected features and selected_options as they were before the
\* uncheck.
C3_CancelRestores ==
    (~modal.shown /\ ~hydrated) =>
        \A id \in Selected :
            LET clicked == onclickFeature(State, id)
                cancelled == onclickModalCancel(clicked)
            IN clicked.modal.shown =>
                   /\ SelectedOf(cancelled) = Selected
                   /\ cancelled.selected_options = selected_options
                   /\ ~cancelled.modal.shown

\* a confirmation with two dependents was resolved and the feature and both
\* dependents are selected
C3_Witness ==
    /\ ~modal.shown
    /\ ~hydrated
    /\ Len(modal.body) = 2
    /\ ({modal.feature_id} \cup Range(modal.body)) \subseteq Selected

(***************************************************************************)
(* C4. Hydration fidelity.                                                 *)
(***************************************************************************)
\* C4: from any selection, applyRebuildFeatures(ids) leaves selected exactly
\* the listed ids that are features of the catalog, with no dependency
\* selected on their behalf, and selected_options is their number.
C4_HydrationFidelity ==
    \A featuresList \in IdLists(MaxFeatures) :
        LET h == applyRebuildFeatures(State, featuresList)
            listed == Range(featuresList) \cap CatalogIds(features)
        IN /\ SelectedOf(h) = listed
           /\ h.selected_options = Cardinality(listed)

\* after a hydrate, a selected feature has a dependency that is a feature of
\* the catalog and is not selected
C4_Witness ==
    /\ hydrated
    /\ ~modal.shown
    /\ \E f \in Selected : KnownDependenciesOf(features, f) \ Selected # {}

(***************************************************************************)
(* C5. Defaults result.                                                    *)
(***************************************************************************)
\* the features the catalog enables by default
DefaultOn(fs) == {fs[i].id : i \in {j \in DOMAIN fs : fs[j].default}}

\* C5: applyDefaults on the freshly loaded catalog selects exactly the
\* default-enabled features and their transitive dependencies.
C5_DefaultsResult ==
    SelectedOf(onFeaturesResponse(EmptyPage, features, NoRebuild)) =
        DependenciesClosure(features, DefaultOn(features))

(***************************************************************************)
(* C6. Defaults idempotence.                                               *)
(***************************************************************************)
\* what a caller can observe of the selection
Observed(s) ==
    [selected |-> SelectedOf(s), selected_options |-> s.selected_options,
     categories |-> [c \in DOMAIN s.category_checkbox |->
                        Indicator(s.category_checkbox[c])],
     global |-> Indicator(s.global_checkbox)]

\* C6: from any reachable selection, a second applyDefaults right after a
\* first one leaves the selected set, selected_options and the indicators as
\* the first one left them.
C6_DefaultsIdempotent ==
    LET once == applyDefaults(State)
    IN Observed(applyDefaults(once)) = Observed(once)

(***************************************************************************)
(* C7. Defaults order-independence.                                        *)
(***************************************************************************)
\* the orders the features of a catalog of n features can come in
CatalogOrders(n) ==
    {p \in [1..n -> 1..n] : \A i, j \in 1..n : p[i] = p[j] => i = j}

\* C7: the selection applyDefaults produces on the freshly loaded catalog is
\* the same for every order of the catalog array.
C7_DefaultsOrderIndependent ==
    \A p \in CatalogOrders(Len(features)) :
        SelectedOf(onFeaturesResponse(
            EmptyPage, [i \in 1..Len(features) |-> features[p[i]]], NoRebuild))
        = SelectedOf(onFeaturesResponse(EmptyPage, features, NoRebuild))

(***************************************************************************)
(* C8. Category tri-state.                                                 *)
(***************************************************************************)
\* the features the catalog puts in category c
MembersOf(fs, c) == {fs[i].id : i \in {j \in DOMAIN fs : fs[j].category = c}}

\* C8: between handlers, every category checkbox shows 'unselected' iff none
\* of the category's features is selected, 'fully selected' iff all are, and
\* 'indeterminate' otherwise.
C8_CategoryTriState ==
    \A c \in DOMAIN category_checkbox :
        Indicator(category_checkbox[c]) =
            TriState(Cardinality(Selected \cap MembersOf(features, c)),
                     MembersOf(features, c))

\* a confirmed cascade started in one category has left another category,
\* which holds a dependent it deselected, partly selected
C8_Witness ==
    /\ ~modal.shown
    /\ modal.feature_id \in CatalogIds(features)
    /\ modal.feature_id \notin Selected
    /\ \E d \in Range(modal.body) :
           LET c == features_by_id[d].category
           IN /\ c # features_by_id[modal.feature_id].category
              /\ d \notin Selected
              /\ Indicator(category_checkbox[c]) = "indeterminate"

(***************************************************************************)
(* C9. Global tri-state.                                                   *)
(***************************************************************************)
\* the global checkbox shows what the selection of the loaded catalog is
GlobalAgrees ==
    Indicator(global_checkbox) =
        TriState(Cardinality(Selected), CatalogIds(features))

C10_LoadResetsGlobalIndicator ==
    \A k \in DOMAIN in_flight :
        LET loaded == onFeaturesResponse(State, in_flight[k], rebuildConfig)
        IN Indicator(loaded.global_checkbox) =
               TriState(Cardinality(SelectedOf(loaded)),
                        CatalogIds(loaded.features))

(***************************************************************************)
(* C11. Toggle idempotence.                                                *)
(***************************************************************************)
\* the selection the catalog was seeded with by applyDefaults on load
Seeded == SelectedOf(onFeaturesResponse(EmptyPage, features, NoRebuild))

\* C11: a programmatic toggle whose target state is the feature's current
\* state changes nothing (selection, selected_options, indicators, modal),
\* and a toggle request issued a second time changes nothing more.
C11_ToggleIdempotent ==
    \A id \in 1..MaxFeatures, check \in BOOLEAN :
        LET once == checkUncheckOptionById(State, id, check, TRUE)
        IN /\ (id \in DOMAIN checkbox /\ checkbox[id] = check) => once = State
           /\ checkUncheckOptionById(once, id, check, TRUE) = once

\* a feature that was selected when the catalog was seeded has been
\* deselected, so a toggle(id, false) request now finds it in its target state
C11_Witness ==
    /\ ~modal.shown
    /\ ~hydrated
    /\ committed
    /\ \E id \in Seeded \ Selected :
           /\ Selected # {}
           /\ checkUncheckOptionById(State, id, FALSE, TRUE) = State

(***************************************************************************)
(* C12. Confirmation entry.                                                *)
(***************************************************************************)
\* C12: a user's uncheck of a selected feature F raises the confirmation iff
\* some selected feature is reachable from F along dependents edges through
\* selected features; the modal then lists exactly those features, each
\* once, and is bound to F.  When there is none the uncheck commits at once
\* and the modal is left as it was.
C12_ConfirmationEntry ==
    ~modal.shown =>
        \A id \in Selected :
            LET affected == DependentsClosure(features, id, Selected \ {id}, {})
                clicked == onclickFeature(State, id)
            IN /\ clicked.modal.shown = (affected # {})
               /\ affected # {} =>
                      /\ Range(clicked.modal.body) = affected
                      /\ Len(clicked.modal.body) = Cardinality(affected)
                      /\ clicked.modal.feature_id = id
               /\ affected = {} =>
                      /\ clicked.modal = modal
                      /\ SelectedOf(clicked) = Selected \ {id}
                      /\ clicked.selected_options = selected_options - 1

\* a confirmation is shown that lists a direct dependent of the unchecked
\* feature and a dependent reached only through it
C12_Witness ==
    /\ modal.shown
    /\ Len(modal.body) = 2
    /\ modal.body[1] \in DependentsOf(features, modal.feature_id)
    /\ modal.body[2] \in DependentsOf(features, modal.body[1])
    /\ modal.body[2] \notin DependentsOf(features, modal.feature_id)

(***************************************************************************)
(* C13. The feature stays selected while its confirmation is pending.      *)
(***************************************************************************)
\* C13: while a confirmation is shown, the feature whose uncheck raised it
\* is still selected.
C13_SelectedWhilePending ==
    modal.shown => modal.feature_id \in Selected

(***************************************************************************)
(* C14. Programmatic bypass.                                               *)
(***************************************************************************)
\* C14: applyDefaults, applyRebuildFeatures, checkUncheckAll,
\* checkUncheckCategory, the exposed checkUncheckOptionById and the unchecks
\* nested in a cascade never touch the modal; only a user's click on a
\* selected feature can show it, and then it is bound to that feature.
C14_ProgrammaticBypass ==
    /\ ~modal.shown =>
          /\ applyDefaults(State).modal = modal
          /\ \A featuresList \in IdLists(MaxFeatures) :
                 applyRebuildFeatures(State, featuresList).modal = modal
          /\ \A check \in BOOLEAN :
                 /\ checkUncheckAll(State, check).modal = modal
                 /\ \A c \in DOMAIN category_checkbox :
                        checkUncheckCategory(State, c, check).modal = modal
                 /\ \A id \in 1..MaxFeatures :
                        checkUncheckOptionById(State, id, check, TRUE).modal
                            = modal
          /\ onclickGlobal(State).modal = modal
          /\ \A c \in DOMAIN category_checkbox :
                 onclickCategory(State, c).modal = modal
          /\ \A id \in DOMAIN checkbox :
                 LET clicked == onclickFeature(State, id)
                 IN clicked.modal # modal =>
                        /\ id \in Selected
                        /\ clicked.modal.shown
                        /\ clicked.modal.feature_id = id
    /\ modal.shown =>
          /\ onclickModalDisable(State).modal = [modal EXCEPT !.shown = FALSE]
          /\ onclickModalCancel(State).modal = [modal EXCEPT !.shown = FALSE]

\* no confirmation was ever shown, and a feature and a dependent of it that
\* were both selected at load are both unselected, as is everything else
C14_Witness ==
    /\ modal = NoModal
    /\ ~hydrated
    /\ Selected = {}
    /\ \E f \in Seeded : \E d \in Seeded \ {f} : d \in DependentsOf(features, f)

(***************************************************************************)
(* C15. Only one outstanding confirmation.                                 *)
(***************************************************************************)
\* C15: a user's uncheck that arrives while a confirmation is shown does not
\* replace the feature the Disable and Cancel buttons are bound to, nor the
\* dependents the modal lists.
C15_SingleConfirmation ==
    modal.shown =>
        \A id \in Selected :
            LET again == onclickFeature(State, id)
            IN /\ again.modal.shown
               /\ again.modal.feature_id = modal.feature_id
               /\ again.modal.body = modal.body

(***************************************************************************)
(* C16. Unknown ids are no-ops.                                            *)
(***************************************************************************)
\* the ids a caller or a dependency list may name that are no feature of
\* the catalog
UnknownIds == (1..MaxFeatures) \ CatalogIds(features)

\* C16: a toggle of an id that is no feature of the catalog changes nothing;
\* applyRebuildFeatures gives the same result with and without the entries
\* that name no feature; the reverse index holds the catalog features only
\* and, for each, exactly its dependents; checking a feature with a
\* dependency that names no feature still selects it and every dependency
\* that is a feature.
C16_UnknownIdsAreNoOps ==
    /\ \A id \in UnknownIds, check \in BOOLEAN :
           checkUncheckOptionById(State, id, check, TRUE) = State
    /\ \A featuresList \in IdLists(MaxFeatures) :
           LET known == SelectSeq(featuresList,
                                  LAMBDA id : id \in CatalogIds(features))
           IN applyRebuildFeatures(State, featuresList)
                  = applyRebuildFeatures(State, known)
    /\ DOMAIN requiredFor \subseteq CatalogIds(features)
    /\ \A d \in CatalogIds(features) :
           DependentsOf(features, d) =
               IF d \in DOMAIN requiredFor THEN Range(requiredFor[d]) ELSE {}
    /\ \A f \in DOMAIN checkbox \ Selected :
           LET checked == checkUncheckOptionById(State, f, TRUE, TRUE)
           IN /\ ({f} \cup KnownDependenciesOf(features, f))
                     \subseteq SelectedOf(checked)
              /\ checked.selected_options = Cardinality(SelectedOf(checked))

\* a feature that was not selected at load is selected; one of its
\* dependencies names no feature of the catalog and another is a feature,
\* which is selected
C16_Witness ==
    /\ ~modal.shown
    /\ ~hydrated
    /\ \E f \in Selected \ Seeded :
           /\ DependenciesOf(features, f) \cap UnknownIds # {}
           /\ (KnownDependenciesOf(features, f) \ {f}) \cap Selected # {}

(***************************************************************************)
(* C17. Termination on any graph.                                          *)
(***************************************************************************)
\* no id comes twice in seq
NoRepeat(seq) == \A i, j \in DOMAIN seq : seq[i] = seq[j] => i = j

\* C17: on every catalog, cycles and self-dependencies included, every
\* toggle, click, Disable, Cancel, checkUncheckAll and checkUncheckCategory
\* returns having changed the state of each feature at most once; the
\* closure computation returns each dependent once; applyDefaults returns
\* after at most one cascade per feature.
C17_Termination ==
    /\ \A check \in BOOLEAN :
           /\ \A id \in 1..MaxFeatures :
                  NoRepeat(checkUncheckOptionById(State, id, check, TRUE).flipped)
           /\ NoRepeat(checkUncheckAll(State, check).flipped)
           /\ \A c \in DOMAIN category_checkbox :
                  NoRepeat(checkUncheckCategory(State, c, check).flipped)
    /\ \A id \in DOMAIN checkbox :
           NoRepeat(onclickFeature(State, id).flipped)
    /\ NoRepeat(onclickModalDisable(State).flipped)
    /\ NoRepeat(onclickModalCancel(State).flipped)
    /\ \A id \in 1..MaxFeatures :
           NoRepeat(getEnabledDependentFeaturesFor(State, id))
    /\ Len(applyDefaults(State).flipped) <= Len(features) * Len(features)

\* two features depend on each other; a confirmed disable cascade started
\* at one of them went round the cycle and left both unselected
C17_Witness ==
    /\ ~modal.shown
    /\ modal.feature_id \in CatalogIds(features)
    /\ \E g \in Range(modal.body) :
           /\ g # modal.feature_id
           /\ g \in DependentsOf(features, modal.feature_id)
           /\ modal.feature_id \in DependentsOf(features, g)
           /\ {g, modal.feature_id} \cap Selected = {}

(***************************************************************************)
(* C18. Aggregates recompute once per commit.                              *)
(***************************************************************************)
\* C18: a toggle, a click, Disable or Cancel recomputes the category and
\* global indicators at most once, however many features its cascade
\* changes.
C18_AggregatesOncePerCommit ==
    /\ \A id \in 1..MaxFeatures, check \in BOOLEAN :
           checkUncheckOptionById(State, id, check, TRUE).recomputed <= 1
    /\ \A id \in DOMAIN checkbox :
           onclickFeature(State, id).recomputed <= 1
    /\ onclickModalDisable(State).recomputed <= 1
    /\ onclickModalCancel(State).recomputed <= 1

(***************************************************************************)
(* C19. Bulk postconditions.                                               *)
(***************************************************************************)
\* C19: checkUncheckAll(true) leaves every feature of the catalog selected,
\* checkUncheckAll(false) none; checkUncheckCategory(name, b) leaves every
\* member of the category in state b; each time selected_options is the
\* number of selected features.
C19_BulkPostconditions ==
    /\ LET all == checkUncheckAll(State, TRUE)
       IN /\ SelectedOf(all) = CatalogIds(features)
          /\ all.selected_options = Cardinality(CatalogIds(features))
    /\ LET none == checkUncheckAll(State, FALSE)
       IN /\ SelectedOf(none) = {}
          /\ none.selected_options = 0
    /\ \A c \in DOMAIN category_checkbox, check \in BOOLEAN :
           LET t == checkUncheckCategory(State, c, check)
           IN /\ \A m \in MembersOf(features, c) : (m \in SelectedOf(t)) = check
              /\ t.selected_options = Cardinality(SelectedOf(t))

\* every member of a category is selected, two of them were not when the
\* catalog was seeded, and neither was a dependency of theirs in the other
\* category, which is selected too
C19_Witness ==
    /\ ~modal.shown
    /\ ~hydrated
    /\ \E c \in DOMAIN category_checkbox :
           /\ MembersOf(features, c) \subseteq Selected
           /\ Cardinality(MembersOf(features, c) \ Seeded) >= 2
           /\ \E m \in MembersOf(features, c) :
                  \E d \in KnownDependenciesOf(features, m) :
                      /\ d \notin MembersOf(features, c)
                      /\ d \in Selected \ Seeded

(***************************************************************************)
(* C20. Stale confirmation after reload.                                   *)
(***************************************************************************)
\* C20: when the response to a features request loads a catalog while a
\* confirmation raised on the previous catalog is shown, Disable and Cancel
\* of that confirmation change nothing in the selection, selected_options
\* and indicators of the loaded catalog.
C20_StaleConfirmationChangesNothing ==
    modal.shown =>
        \A k \in DOMAIN in_flight :
            LET loaded == onFeaturesResponse(State, in_flight[k], rebuildConfig)
            IN /\ Observed(onclickModalDisable(loaded)) = Observed(loaded)
               /\ Observed(onclickModalCancel(loaded)) = Observed(loaded)

(***************************************************************************)
(* C21. Cached count.                                                      *)
(***************************************************************************)
\* C21: in every reachable state selected_options is the number of selected
\* features.
C21_CachedCount ==
    selected_options = Cardinality(Selected)

\* the same, in the states where the options of the catalog are in the page
C21_CachedCountWhileShown ==
    CatalogShown => selected_options = Cardinality(Selected)

(***************************************************************************)
(* C22. Upward closure without hydrate.                                    *)
(***************************************************************************)
\* C22: in every state with no confirmation shown that is reached from the
\* seeded catalog by clicks (each confirmed or cancelled), toggles,
\* applyDefaults, checkUncheckAll and checkUncheckCategory, every dependency
\* of a selected feature that is a feature of the catalog is selected,
\* on catalogs with dependency cycles too.
C22_UpwardClosedWithoutHydrate ==
    (~hydrated /\ ~modal.shown) =>
        \A f \in Selected :
            \A d \in DependenciesOf(features, f) :
                d \in CatalogIds(features) => d \in Selected

\* two features that depend on each other and were not selected when the
\* catalog was seeded are both selected after a confirmation was resolved
C22_Witness ==
    /\ ~hydrated
    /\ ~modal.shown
    /\ modal.feature_id # 0
    /\ \E f \in Selected \ Seeded : \E g \in Selected \ (Seeded \cup {f}) :
           /\ g \in DependenciesOf(features, f)
           /\ f \in DependenciesOf(features, g)

(***************************************************************************)
(* C23. Enable cascade.                                                    *)
(***************************************************************************)
\* C23: from an upward closed selection with no confirmation shown, checking
\* an unselected feature F, by a toggle or by a click, leaves selected
\* exactly the former selection, F and the transitive catalog dependencies
\* of F; the checkboxes that change are those of that set that were not
\* selected, each once.
C23_EnableCascade ==
    (~modal.shown /\ UpwardClosed(features, Selected)) =>
        \A f \in DOMAIN checkbox \ Selected :
            LET needed == DependenciesClosure(features, {f})
                toggled == checkUncheckOptionById(State, f, TRUE, TRUE)
                clicked == onclickFeature(State, f)
            IN /\ SelectedOf(toggled) = Selected \cup needed
               /\ Range(toggled.flipped) = needed \ Selected
               /\ NoRepeat(toggled.flipped)
               /\ toggled.modal = modal
               /\ SelectedOf(clicked) = Selected \cup needed
               /\ Range(clicked.flipped) = needed \ Selected
               /\ NoRepeat(clicked.flipped)

\* a feature that was not selected at load is selected together with a
\* dependency of a dependency of it, neither selected at load, while a
\* third feature of the selection at load is still selected
C23_Witness ==
    /\ ~modal.shown
    /\ ~hydrated
    /\ \E f \in Selected \ Seeded :
           \E d \in KnownDependenciesOf(features, f) \ {f} :
               \E e \in KnownDependenciesOf(features, d) \ {f, d} :
                   /\ {d, e} \subseteq Selected \ Seeded
                   /\ e \notin DependenciesOf(features, f)

(***************************************************************************)
(* C24. Shown set equals committed set.                                    *)
(***************************************************************************)
\* C24: on every catalog and selection, the features
\* getEnabledDependentFeaturesFor lists for a feature are exactly those
\* disabledDependentsForFeature deselects for it, and nothing else changes
\* state; asking for the confirmation changes nothing but the modal; while
\* a confirmation is shown, Disable deselects exactly the listed features.
C24_ShownEqualsCommitted ==
    /\ \A id \in CatalogIds(features) :
           LET listed == Range(getEnabledDependentFeaturesFor(State, id))
               disabled == disabledDependentsForFeature(State, id)
               asked == askToDisableDependentsForFeature(State, id)
           IN /\ SelectedOf(disabled) \subseteq Selected
              /\ Selected \ SelectedOf(disabled) = listed
              /\ Range(disabled.flipped) = listed
              /\ [asked EXCEPT !.modal = modal] = State
    /\ modal.shown =>
           LET accepted == onclickModalDisable(State)
           IN /\ SelectedOf(accepted) \subseteq Selected
              /\ Selected \ SelectedOf(accepted) = Range(modal.body)

\* a confirmation is shown that lists two features which depend on each
\* other
C24_Witness ==
    /\ modal.shown
    /\ \E g \in Range(modal.body) : \E h \in Range(modal.body) \ {g} :
           /\ g \in DependenciesOf(features, h)
           /\ h \in DependenciesOf(features, g)

(***************************************************************************)
(* C25. Cancel touches only the originating feature.                       *)
(***************************************************************************)
\* C25: whenever a confirmation is shown, Cancel leaves the originating
\* feature selected, writes no checkbox but that feature's, and leaves every
\* other feature as it was.
C25_CancelTouchesOnlyOrigin ==
    modal.shown =>
        LET cancelled == onclickModalCancel(State)
        IN /\ SelectedOf(cancelled) = Selected \cup {modal.feature_id}
           /\ Range(cancelled.flipped) \subseteq {modal.feature_id}

(***************************************************************************)
(* C26. Defaults are a clean replay.                                       *)
(***************************************************************************)
\* C26: from every reachable selection of a catalog (hydrated ones
\* included), applyDefaults ends in the selection it ends in when run from
\* the selection the catalog was loaded with.
C26_DefaultsCleanReplay ==
    ~modal.shown =>
        SelectedOf(applyDefaults(State)) =
            SelectedOf(applyDefaults(
                onFeaturesResponse(EmptyPage, features, NoRebuild)))

(***************************************************************************)
(* C27. Reverse index.                                                     *)
(***************************************************************************)
\* C27: after every catalog load, only features of the loaded catalog have
\* a requiredFor list, and F is in the list of D exactly when F and D are
\* features of the loaded catalog and F.dependencies names D; a features
\* response leaves the index that the same response gives on the page
\* before its first load.
C27_ReverseIndex ==
    /\ DOMAIN requiredFor \subseteq CatalogIds(features)
    /\ \A d \in 1..PageMaxFeatures, f \in 1..PageMaxFeatures :
           (d \in DOMAIN requiredFor /\ f \in Range(requiredFor[d]))
               <=> /\ d \in CatalogIds(features)
                   /\ f \in CatalogIds(features)
                   /\ d \in DependenciesOf(features, f)
    /\ \A k \in DOMAIN in_flight :
           onFeaturesResponse(State, in_flight[k], rebuildConfig).requiredFor
               = onFeaturesResponse(EmptyPage, in_flight[k],
                                    NoRebuild).requiredFor

\* the last confirmation was raised on a catalog in which 2 depended on 1;
\* in the catalog loaded since, 1 depends on 2 and nothing depends on 1
C27_Witness ==
    /\ modal.feature_id = 1
    /\ modal.body = <<2>>
    /\ DOMAIN requiredFor = {2}
    /\ requiredFor[2] = <<1>>

(***************************************************************************)
(* C28. Latest choice wins.                                                *)
(***************************************************************************)
\* rebuildConfig after the .then callback of onBoardChange has run with it
afterResponse(rebuild) ==
    IF rebuild.isRebuildMode THEN clearRebuildConfig ELSE rebuild

\* the page after the responses to the requests in_flight[first] and then
\* in_flight[second] have arrived
afterResponses(first, second) ==
    onFeaturesResponse(
        onFeaturesResponse(State, in_flight[first], rebuildConfig),
        in_flight[second], afterResponse(rebuildConfig))

\* C28: with two features requests in flight (in_flight holds them in the
\* order the boards were chosen), once both responses have arrived, in
\* either order, the loaded catalog and the checkboxes are those of the
\* board chosen last and, outside rebuild mode, the selection is the one
\* that board's catalog is seeded with.
C28_LatestChoiceWins ==
    Len(in_flight) = 2 =>
        LET latest == in_flight[2]
        IN \A order \in {<<1, 2>>, <<2, 1>>} :
               LET loaded == afterResponses(order[1], order[2])
               IN /\ loaded.features = latest
                  /\ DOMAIN loaded.checkbox = CatalogIds(latest)
                  /\ ~rebuildConfig.isRebuildMode =>
                         SelectedOf(loaded) = SelectedOf(
                             onFeaturesResponse(EmptyPage, latest, NoRebuild))

(***************************************************************************)
(* C29. Rebuild seeding happens once.                                      *)
(***************************************************************************)
\* C29: rebuild mode is set only while no catalog has been loaded; a
\* features response that arrives in rebuild mode leaves selected exactly
\* the prior build's features that the catalog has, whatever the catalog's
\* defaults, and clears the rebuild configuration; a features response that
\* arrives outside rebuild mode leaves the selection applyDefaults gives on
\* the catalog and the configuration cleared.
C29_RebuildSeedsOnce ==
    /\ rebuildConfig.isRebuildMode => features = <<>>
    /\ ~rebuildConfig.isRebuildMode => rebuildConfig = NoRebuild
    /\ \A k \in DOMAIN in_flight :
           LET loaded == onFeaturesResponse(State, in_flight[k], rebuildConfig)
               defaults == onFeaturesResponse(EmptyPage, in_flight[k],
                                              NoRebuild)
           IN /\ afterResponse(rebuildConfig) = NoRebuild
              /\ IF rebuildConfig.isRebuildMode
                 THEN /\ SelectedOf(loaded) =
                             Range(rebuildConfig.selectedFeatures)
                                 \cap CatalogIds(in_flight[k])
                      /\ Range(loaded.flipped) = SelectedOf(loaded)
                      /\ loaded.hydrated
                 ELSE /\ SelectedOf(loaded) = SelectedOf(defaults)
                      /\ loaded.flipped = defaults.flipped
                      /\ ~loaded.hydrated

\* the first catalog was seeded from the prior build's list, which is not
\* what its defaults give, the rebuild configuration is cleared, and the
\* features of another board are requested
C29_Witness ==
    /\ hydrated
    /\ Selected # Seeded
    /\ Selected # {}
    /\ rebuildConfig = NoRebuild
    /\ in_flight # <<>>

(***************************************************************************)
(* C30. Single log-polling chain.                                          *)
(***************************************************************************)
\* C30: in every reachable state of the builds page scheduled_fetches is 0
\* or 1 and the log requests awaiting their response and the armed timers
\* are together at most one, and none when scheduled_fetches is 0.
C30_SingleChain ==
    /\ scheduled_fetches \in {0, 1}
    /\ Len(xhr_sent) + timeouts <= 1
    /\ Len(xhr_sent) + timeouts <= scheduled_fetches

\* the log of one build is shown while polling is on for another build,
\* chosen while the first chain was running, with one request or timer
\* outstanding
C30_Witness ==
    /\ logTextArea.text = "running"
    /\ build_id # logTextArea.build
    /\ ~stopFetch
    /\ Len(xhr_sent) + timeouts = 1

(***************************************************************************)
(* C31. The log of the chosen build is eventually fetched.                 *)
(***************************************************************************)
\* the log of build id, as a response gave it, is in the text area
LogDisplayed(id) ==
    /\ logTextArea.build = id
    /\ logTextArea.text \in {"running", "finished"}

\* C31: with every request answered by a 200, whenever the log modal is
\* shown for a build, then eventually that build's log is displayed or the
\* modal was hidden or launched for another build.
C31_ChosenLogEventuallyDisplayed ==
    \A id \in 1..MaxBuilds :
        (logModal = id) ~> (logModal # id \/ LogDisplayed(id))

(***************************************************************************)
(* C32. No stale log is shown.                                             *)
(***************************************************************************)
\* C32: whenever a response arrives with status 200, the log its onload
\* writes into the text area is the log of the build most recently passed
\* to startLogFetch (build_id).
C32_NoStaleLog ==
    \A k \in DOMAIN xhr_sent :
        LET loaded == xhrOnload(LogFetchState, k, 200,
                                xhr_sent[k] \in finished_builds)
        IN loaded.logTextArea.build = build_id

(***************************************************************************)
(* C33. Log polling stops.                                                 *)
(***************************************************************************)
\* C33: while stopFetch is set (by stopLogFetch or by a displayed
\* BUILD_FINISHED, with no startLogFetch since) a response arms no timer and
\* a timer sends no request; a 200 response whose text holds BUILD_FINISHED
\* sets stopFetch and arms no timer; and once nothing is outstanding
\* scheduled_fetches is 0 and startLogFetch sends a request.
C33_PollingStops ==
    /\ stopFetch =>
           /\ \A k \in DOMAIN xhr_sent, status \in {200, 404} :
                  LET loaded == xhrOnload(LogFetchState, k, status,
                                          xhr_sent[k] \in finished_builds)
                  IN /\ loaded.timeouts = timeouts
                     /\ Len(loaded.xhr_sent) = Len(xhr_sent) - 1
                     /\ loaded.stopFetch
           /\ timeouts > 0 =>
                  fetchLogFile([LogFetchState EXCEPT !.timeouts = @ - 1]).xhr_sent
                      = xhr_sent
    /\ \A k \in DOMAIN xhr_sent :
           LET loaded == xhrOnload(LogFetchState, k, 200, TRUE)
           IN /\ loaded.stopFetch
              /\ loaded.timeouts = timeouts
              /\ Len(loaded.xhr_sent) = Len(xhr_sent) - 1
    /\ (stopFetch /\ xhr_sent = <<>> /\ timeouts = 0) =>
           /\ scheduled_fetches = 0
           /\ \A id \in 1..MaxBuilds :
                  startLogFetch(LogFetchState, id).xhr_sent = <<id>>

(***************************************************************************)
(* C34. Legacy defaults gating.                                            *)
(***************************************************************************)
\* C34: pending_update_calls is never negative and counts the unsettled
\* vehicles, versions and boards requests; while it is above 0
\* fetchAndUpdateDefaults does nothing; and once every such request has
\* settled, resolved or rejected, it is 0, the three selects are in the page
\* and the last defaults request sent was for their values.
C34_DefaultsGating ==
    /\ pending_update_calls >= 0
    /\ pending_update_calls = Len(update_requests)
    /\ pending_update_calls > 0 =>
           fetchAndUpdateDefaults(LegacyState) = LegacyState
    /\ update_requests = <<>> =>
           /\ pending_update_calls = 0
           /\ NoElement \notin {vehicle, version, board}
           /\ defaults_requested = <<vehicle, version, board>>

====
